---- MODULE Spec2Model ----
(***************************************************************************)
(* Refinement check between a program and a projection                     *)
(* (rfccc/nodes/choreography/refinement.py).                               *)
(*                                                                         *)
(* A program is a syntax tree; label_as_root gives every node a label and  *)
(* the constructor builds the fallthrough graph nextLabel with buildCFA.   *)
(* check() computes the relation compat by removing incompatible pairs     *)
(* until a pass removes nothing.                                           *)
(***************************************************************************)
EXTENDS Integers, Sequences, FiniteSets, TLC

(***************************************************************************)
(* Bounds of the model.                                                    *)
(***************************************************************************)
\* largest number of pass-through statements put in front of a program
MaxPad == 1
\* the value at which the counter of removals stops counting
MaxCount == 30
\* largest relation (number of pairs) whose sub-relations are enumerated
MaxClosedPairs == 20
\* most pass-through statements in a chain
MaxChain == 3
\* most nodes of an enumerated program tree
MaxNodes == 4

(***************************************************************************)
(* Values                                                                  *)
(***************************************************************************)
\* Python's None, as returned by nextStatement for a label without successor
None == 0
\* the marker used for the exception raised by nextStatement
Ambiguous == -1

\* names are sequences of character codes
chr_msg_ == <<109, 115, 103, 95>>
chr_m_ == <<109, 95>>
NameGo == <<71, 111>>
NameGoLower == <<103, 111>>
NameMsgGo == <<77, 115, 103, 95, 71, 111>>
NameStop == <<83, 116, 111, 112>>
NameMove == <<77, 111, 118, 101>>
NameMMove == <<109, 95, 109, 111, 118, 101>>
NameIdle == <<73, 100, 108, 101>>
NoName == <<>>

\* str.lower() on a sequence of character codes
lower(n) == [i \in DOMAIN n |-> IF n[i] \in 65..90 THEN n[i] + 32 ELSE n[i]]

sameMpName(n1, n2) ==
    LET l1 == lower(n1)
        l2 == lower(n2)
    IN  l1 = l2 \/ l1 = chr_m_ \o l2

sameMsgName_unchecked(n1, n2) == TRUE

sameMsgName(n1, n2) ==
    LET l1 == lower(n1)
        l2 == lower(n2)
    IN  l1 = l2 \/ l1 = chr_msg_ \o l2

(***************************************************************************)
(* Conditions: opaque values that can be negated and compared.             *)
(***************************************************************************)
Cond(a) == [atom |-> a, neg |-> FALSE]
Not(c) == [c EXCEPT !.neg = ~c.neg]
S_true == Cond("true")
NoCond == Cond("none")

(***************************************************************************)
(* Program syntax trees (ast_inter).                                       *)
(***************************************************************************)
Tree(kind, subs, cond, value, comp) ==
    [kind |-> kind, subs |-> subs, condition |-> cond, value |-> value, comp |-> comp]

Statement(children) == Tree("Statement", children, NoCond, NoName, "")
Receive(motion, actions) == Tree("Receive", <<motion>> \o actions, NoCond, NoName, "")
Action(str_msg_type, program) == Tree("Action", <<program>>, NoCond, str_msg_type, "")
If(if_list) == Tree("If", if_list, NoCond, NoName, "")
IfComponent(condition, program) == Tree("IfComponent", <<program>>, condition, NoName, "")
While(condition, program) == Tree("While", <<program>>, condition, NoName, "")
Motion(value) == Tree("Motion", <<>>, NoCond, value, "")
Assign == Tree("Assign", <<>>, NoCond, NoName, "")
Send(comp, msg_type) == Tree("Send", <<>>, NoCond, msg_type, comp)
PrintStmt == Tree("Print", <<>>, NoCond, NoName, "")
Skip == Tree("Skip", <<>>, NoCond, NoName, "")
Exit == Tree("Exit", <<>>, NoCond, NoName, "")

RECURSIVE Size(_)
RECURSIVE SizeSum(_, _)
\* number of nodes of the first i subtrees
SizeSum(subs, i) == IF i = 0 THEN 0 ELSE SizeSum(subs, i - 1) + Size(subs[i])
Size(t) == 1 + SizeSum(t.subs, Len(t.subs))

RECURSIVE label(_, _)
RECURSIVE labelSubs(_, _, _)
\* the nodes of the first i subtrees, labelled from counter on
labelSubs(subs, counter, i) ==
    IF i = 0 THEN <<>>
    ELSE labelSubs(subs, counter, i - 1)
            \o label(subs[i], counter + SizeSum(subs, i - 1))
\* nodes of t in the order of their labels, t itself getting the label counter
label(t, counter) ==
    <<[kind |-> t.kind,
       subs |-> [i \in DOMAIN t.subs |-> counter + 1 + SizeSum(t.subs, i - 1)],
       condition |-> t.condition, value |-> t.value, comp |-> t.comp]>>
    \o labelSubs(t.subs, counter + 1, Len(t.subs))

\* label -> node, the root getting label 1
label_as_root(t) == label(t, 1)

\* field accessors on labelled nodes
childrenOf(n) == n.subs
motionOf(n) == n.subs[1]
actionsOf(n) == Tail(n.subs)
programOf(n) == n.subs[1]
if_listOf(n) == n.subs

(***************************************************************************)
(* Projection nodes (ast_proj), as stored in state_to_node.                *)
(***************************************************************************)
ProjNode(kind, mp_name, receiver, msg_type, end_state, guarded_states) ==
    [kind |-> kind, mp_name |-> mp_name, receiver |-> receiver, msg_type |-> msg_type,
     end_state |-> end_state, guarded_states |-> guarded_states]

ProjMotion(mp_name, end) == ProjNode("Motion", mp_name, "", NoName, <<end>>, <<>>)
SendMessage(receiver, msg_type, end) == ProjNode("SendMessage", NoName, receiver, msg_type, <<end>>, <<>>)
ReceiveMessage(msg_type, end) == ProjNode("ReceiveMessage", NoName, "", msg_type, <<end>>, <<>>)
GuardedChoice(guarded_states) == ProjNode("GuardedChoice", NoName, "", NoName, <<>>, guarded_states)
ExternalChoice(end_state) == ProjNode("ExternalChoice", NoName, "", NoName, end_state, <<>>)
End == ProjNode("End", NoName, "", NoName, <<>>, <<>>)
\* one guarded state of a GuardedChoice
GuardArg(expression, id) == [expression |-> expression, id |-> id]

(***************************************************************************)
(* buildCFA: the fallthrough graph.  The result carries the updated        *)
(* nextLabel and the returned list of last labels.                         *)
(***************************************************************************)
\* "for ls in lastLabels: self.nextLabel[ls].add(l)"
connect(nl, lastLabels, l) ==
    [x \in DOMAIN nl |-> IF x \in lastLabels THEN nl[x] \cup {l} ELSE nl[x]]

RECURSIVE buildCFA(_, _, _, _)
RECURSIVE buildCFA_seq(_, _, _, _, _)
RECURSIVE buildCFA_alt(_, _, _, _, _)

buildCFA_seq_fromOwn(P, nl, lastLabel, subs, i) ==
    IF i > Len(subs) THEN [nextLabel |-> nl, lastLabel |-> lastLabel]
    ELSE LET r == buildCFA(P, nl, lastLabel, subs[i])
         IN  buildCFA_seq(P, r.nextLabel, lastLabel, subs, i + 1)

\* lines 44-46: children subs[i..] one after the other, each starting from
\* the last labels of the one before
buildCFA_seq(P, nl, lastLabel, subs, i) ==
    IF i > Len(subs) THEN [nextLabel |-> nl, lastLabel |-> lastLabel]
    ELSE LET r == buildCFA(P, nl, lastLabel, subs[i])
         IN  buildCFA_seq(P, r.nextLabel, r.lastLabel, subs, i + 1)

\* alternatives subs[i..], each starting from lastLabel; the union of what
\* they return
buildCFA_alt(P, nl, lastLabel, subs, i) ==
    IF i > Len(subs) THEN [nextLabel |-> nl, lastLabel |-> {}]
    ELSE LET r == buildCFA(P, nl, lastLabel, subs[i])
             rest == buildCFA_alt(P, r.nextLabel, lastLabel, subs, i + 1)
         IN  [nextLabel |-> rest.nextLabel, lastLabel |-> r.lastLabel \cup rest.lastLabel]

buildCFA_Receive_incoming(P, nl1, lastLabels, l) ==
    LET r == buildCFA(P, nl1, lastLabels, motionOf(P[l]))
        nl2 == connect(r.nextLabel, r.lastLabel, l)
    IN  buildCFA_alt(P, nl2, {l}, actionsOf(P[l]), 1)

\* lines 47-51: the motion starts from lastLabel, which line 42 has set to
\* [l]; the parameter lastLabels is not read again
buildCFA_Receive(P, nl1, lastLabels, l) ==
    LET lastLabel == {l}
        r == buildCFA(P, nl1, lastLabel, motionOf(P[l]))
        nl2 == connect(r.nextLabel, r.lastLabel, l)
    IN  buildCFA_alt(P, nl2, lastLabel, actionsOf(P[l]), 1)

buildCFA_While_entersBody(P, nl1, l) ==
    LET r == buildCFA(P, nl1, {l}, programOf(P[l]))
    IN  [nextLabel |-> connect(r.nextLabel, r.lastLabel, l), lastLabel |-> {l}]

buildCFA_While_exitsBody(P, nl1, l) ==
    LET r == buildCFA(P, nl1, {}, programOf(P[l]))
    IN  [nextLabel |-> connect(r.nextLabel, r.lastLabel, l), lastLabel |-> {l} \cup r.lastLabel]

\* lines 58-61: the body starts from no label; what it returns leads back to l
buildCFA_While(P, nl1, l) ==
    LET r == buildCFA(P, nl1, {}, programOf(P[l]))
    IN  [nextLabel |-> connect(r.nextLabel, r.lastLabel, l), lastLabel |-> {l}]

buildCFA(P, nl, lastLabels, l) ==
    LET statment == P[l]
        nl1 == connect(nl, lastLabels, l)
        lastLabel == {l}
    IN  CASE statment.kind = "Statement" ->
                buildCFA_seq(P, nl1, lastLabel, childrenOf(statment), 1)
          [] statment.kind = "Receive" -> buildCFA_Receive(P, nl1, lastLabels, l)
          [] statment.kind = "Action" ->
                buildCFA(P, nl1, lastLabel, programOf(statment))
          [] statment.kind = "If" ->
                buildCFA_alt(P, nl1, lastLabel, if_listOf(statment), 1)
          [] statment.kind = "IfComponent" ->
                buildCFA(P, nl1, lastLabel, programOf(statment))
          [] statment.kind = "While" -> buildCFA_While(P, nl1, l)
          [] OTHER -> [nextLabel |-> nl1, lastLabel |-> lastLabel]

\* the constructor: nextLabel starts empty for every label, then
\* buildCFA([], program)
initNextLabel(P) == buildCFA(P, [l \in DOMAIN P |-> {}], {}, 1).nextLabel

(***************************************************************************)
(* State of one Refinement object and of a call of check().                *)
(***************************************************************************)
VARIABLES
    program,            \* the syntax tree given to the constructor
    programLabels,      \* label -> node (program.label_as_root())
    state_to_node,      \* state -> node (projection.mk_state_to_node())
    start_state,        \* projection.start_state
    nextLabel,          \* label -> set of fallthrough successors
    oracle,             \* the pairs (a, b) for which the decision procedure proves a => b
    cachedImplication,  \* (a, b) -> answer
    compat,             \* label -> set of states
    changed,            \* the flag of the outer loop of check()
    pc,                 \* position in check()
    todoL,              \* labels the current pass still has to visit
    l,                  \* label of the current iteration of "for l in allLabels"
    todoS,              \* states of copy(self.compat[l]) still to visit
    result,             \* the value check() returned
    error,              \* the exception that left check()
    nRemoved,           \* number of times a pair was found incompatible and discarded
    nOracle,            \* number of calls of the decision procedure
    nCompatible         \* <<number of calls of compatible>> in the runs that
                        \* count them, <<>> in the others

(***************************************************************************)
(* State of one carrier object, of the call in progress and of the wheel   *)
(* processes of that call.                                                 *)
(***************************************************************************)
VARIABLES
    pinEnable,          \* level of the GPIO pin self.pinEnable ("LOW" enables the motors)
    stepsCart,          \* self.stepsCart
    angleCart,          \* self.angleCart
    cart_x,             \* self.x
    cart_y,             \* self.y
    cpc,                \* position of the caller in setAngleCart / moveCart
    method,             \* the method in progress
    arg,                \* its argument (angle or distance)
    steps,              \* its local variable steps
    procs,              \* the Process objects p1..p4 of __compute_steps__
    nproc,              \* the process the caller starts or joins next
    raised              \* the exception that ended the last call

cartVars == <<pinEnable, stepsCart, angleCart, cart_x, cart_y, cpc, method, arg, steps,
              procs, nproc, raised>>

refinementVars == <<program, programLabels, state_to_node, start_state, nextLabel, oracle,
                    cachedImplication, compat, changed, pc, todoL, l, todoS, result, error,
                    nRemoved, nOracle, nCompatible>>

vars == <<refinementVars, cartVars>>

allLabels == DOMAIN programLabels
allState == DOMAIN state_to_node
initLabel == 1

(***************************************************************************)
(* Values returned by compatible: "True", "False", or the name of the      *)
(* exception raised while it was evaluated.                                *)
(***************************************************************************)
Bool(b) == IF b THEN "True" ELSE "False"
\* "a and b": b is evaluated only when a is True
andThen(a, b) == IF a = "True" THEN b ELSE a

RECURSIVE anyFrom(_, _)
\* any(...) over the results rs[i..]: stops at the first True or exception
anyFrom(rs, i) ==
    IF i > Len(rs) THEN "False"
    ELSE IF rs[i] = "False" THEN anyFrom(rs, i + 1) ELSE rs[i]
any(rs) == anyFrom(rs, 1)

RECURSIVE allFrom(_, _)
\* all(...) over the results rs[i..]: stops at the first False or exception
allFrom(rs, i) ==
    IF i > Len(rs) THEN "True"
    ELSE IF rs[i] = "True" THEN allFrom(rs, i + 1) ELSE rs[i]
all(rs) == allFrom(rs, 1)

RECURSIVE evaluatedFrom(_, _)
\* how many elements of rs any(...) evaluates
evaluatedFrom(rs, i) ==
    IF i > Len(rs) THEN Len(rs)
    ELSE IF rs[i] = "False" THEN evaluatedFrom(rs, i + 1) ELSE i
evaluated(rs) == evaluatedFrom(rs, 1)

(***************************************************************************)
(* implies, _refines, nextStatement                                        *)
(***************************************************************************)
\* vc.discharge() on cond1 /\ ~cond2
discharge(cond1, cond2) == <<cond1, cond2>> \in oracle

implies(cond1, cond2) ==
    IF <<cond1, cond2>> \in DOMAIN cachedImplication
    THEN cachedImplication[<<cond1, cond2>>]
    ELSE discharge(cond1, cond2)

\* the relation c is self.compat, or a relation to test for closure
_refines_anyAtEnd(c, statment, node) ==
    IF statment = None THEN "True" ELSE Bool(node \in c[statment])

_refines(c, statment, node) ==
    IF statment = None
    THEN IF node \in DOMAIN state_to_node
         THEN Bool(state_to_node[node].kind = "End")
         ELSE "KeyError"
    ELSE Bool(node \in c[statment])

nextStatement_one_or_more(statment) ==
    LET n == nextLabel[statment]
    IN  IF Cardinality(n) = 0 THEN None
        ELSE IF Cardinality(n) >= 1 THEN Ambiguous
        ELSE CHOOSE elt \in n : TRUE

nextStatement(statment) ==
    LET n == nextLabel[statment]
    IN  IF Cardinality(n) = 0 THEN None
        ELSE IF Cardinality(n) > 1 THEN Ambiguous
        ELSE CHOOSE elt \in n : TRUE

refinesNext_ranOff(c, statmentL, node) == _refines(c, None, node)

\* self._refines(self.nextStatement(statmentL), node)
refinesNext(c, statmentL, node) ==
    LET n == nextStatement(statmentL)
    IN  IF n = Ambiguous THEN "AmbiguousSuccessor" ELSE _refines(c, n, node)

(***************************************************************************)
(* compatible(statmentL, nodeL), evaluated against the relation c.         *)
(***************************************************************************)
\* the elements of "implies(cond, gs.expression) and _refines(target, gs.id)
\* for gs in node.guarded_states", target being a label or None
guardResults(c, cond, target, gss) ==
    [i \in DOMAIN gss |->
        andThen(Bool(implies(cond, gss[i].expression)), _refines(c, target, gss[i].id))]

\* the same with target = self.nextStatement(statmentL), looked up for each
\* element whose implication holds
guardResultsNext(c, cond, statmentL, gss) ==
    [i \in DOMAIN gss |->
        andThen(Bool(implies(cond, gss[i].expression)), refinesNext(c, statmentL, gss[i].id))]

compatibleWhile_enterOnly(c, statmentL, nodeL) ==
    LET statment == programLabels[statmentL]
        node == state_to_node[nodeL]
    IN  IF statment.condition = S_true
        THEN _refines(c, programOf(statment), nodeL)
        ELSE IF node.kind = "GuardedChoice"
        THEN any(guardResults(c, statment.condition, programOf(statment), node.guarded_states))
        ELSE "False"

compatibleWhile_noLiteral(c, statmentL, nodeL) ==
    LET statment == programLabels[statmentL]
        node == state_to_node[nodeL]
    IN  IF node.kind = "GuardedChoice"
        THEN LET enter == any(guardResults(c, statment.condition, programOf(statment),
                                           node.guarded_states))
                 leave == any(guardResultsNext(c, Not(statment.condition), statmentL,
                                               node.guarded_states))
             IN  andThen(enter, leave)
        ELSE "False"

compatibleWhile(c, statmentL, nodeL) ==
    LET statment == programLabels[statmentL]
        node == state_to_node[nodeL]
    IN  IF statment.condition = S_true
        THEN _refines(c, programOf(statment), nodeL)
        ELSE IF node.kind = "GuardedChoice"
        THEN LET enter == any(guardResults(c, statment.condition, programOf(statment),
                                           node.guarded_states))
                 leave == any(guardResultsNext(c, Not(statment.condition), statmentL,
                                               node.guarded_states))
             IN  andThen(enter, leave)
        ELSE "False"

compatibleIf_anyBranch(c, statmentL, nodeL) ==
    LET statment == programLabels[statmentL]
        node == state_to_node[nodeL]
        comps == if_listOf(statment)
    IN  IF node.kind = "GuardedChoice"
        THEN IF Len(comps) = 0 THEN "True" ELSE "NameError"
        ELSE any([i \in DOMAIN comps |->
                    _refines(c, programOf(programLabels[comps[i]]), nodeL)])

compatibleIf(c, statmentL, nodeL) ==
    LET statment == programLabels[statmentL]
        node == state_to_node[nodeL]
        comps == if_listOf(statment)
    IN  IF node.kind = "GuardedChoice"
        THEN \* the generator reads the undefined name "mode"
             IF Len(comps) = 0 THEN "True" ELSE "NameError"
        ELSE any([i \in DOMAIN comps |->
                    IF programLabels[comps[i]].condition = S_true
                    THEN _refines(c, programOf(programLabels[comps[i]]), nodeL)
                    ELSE "False"])

\* findOne(ns) of the ExternalChoice case
findOne(c, statment, ns) ==
    IF _refines(c, motionOf(statment), ns) = "True" THEN "True"
    ELSE any([i \in DOMAIN actionsOf(statment) |-> _refines(c, actionsOf(statment)[i], ns)])

compatibleReceive_anyTarget(c, statmentL, nodeL) ==
    LET statment == programLabels[statmentL]
        node == state_to_node[nodeL]
    IN  CASE node.kind = "ReceiveMessage" ->
                any([i \in DOMAIN actionsOf(statment) |-> _refines(c, actionsOf(statment)[i], nodeL)])
          [] node.kind = "Motion" -> _refines(c, motionOf(statment), nodeL)
          [] node.kind = "ExternalChoice" ->
                any([i \in DOMAIN node.end_state |-> findOne(c, statment, node.end_state[i])])
          [] OTHER -> "False"

compatibleReceive(c, statmentL, nodeL) ==
    LET statment == programLabels[statmentL]
        node == state_to_node[nodeL]
    IN  CASE node.kind = "ReceiveMessage" ->
                any([i \in DOMAIN actionsOf(statment) |-> _refines(c, actionsOf(statment)[i], nodeL)])
          [] node.kind = "Motion" -> _refines(c, motionOf(statment), nodeL)
          [] node.kind = "ExternalChoice" ->
                all([i \in DOMAIN node.end_state |-> findOne(c, statment, node.end_state[i])])
          [] OTHER -> "False"

compatibleAction_sameMsgName(c, statmentL, nodeL) ==
    LET statment == programLabels[statmentL]
        node == state_to_node[nodeL]
    IN  andThen(Bool(node.kind = "ReceiveMessage"),
        andThen(Bool(sameMsgName(statment.value, node.msg_type)),
                refinesNext(c, statmentL, node.end_state[1])))

\* lines 169-172: the message types are compared with ==
compatibleAction(c, statmentL, nodeL) ==
    LET statment == programLabels[statmentL]
        node == state_to_node[nodeL]
    IN  andThen(Bool(node.kind = "ReceiveMessage"),
        andThen(Bool(statment.value = node.msg_type),
                refinesNext(c, statmentL, node.end_state[1])))

compatibleExit_always(node) == "True"

compatibleExit(node) == Bool(node.kind = "End")

compatible(c, statmentL, nodeL) ==
    LET statment == programLabels[statmentL]
        node == state_to_node[nodeL]
    IN  CASE statment.kind = "Motion" ->
                andThen(Bool(node.kind = "Motion"),
                andThen(Bool(sameMpName(statment.value, node.mp_name)),
                        refinesNext(c, statmentL, node.end_state[1])))
          [] statment.kind = "Assign" -> refinesNext(c, statmentL, nodeL)
          [] statment.kind = "While" -> compatibleWhile(c, statmentL, nodeL)
          [] statment.kind = "If" -> compatibleIf(c, statmentL, nodeL)
          [] statment.kind = "Send" ->
                andThen(Bool(node.kind = "SendMessage"),
                andThen(Bool(statment.comp = node.receiver),
                andThen(Bool(sameMsgName(statment.value, node.msg_type)),
                        refinesNext(c, statmentL, node.end_state[1]))))
          [] statment.kind = "Receive" -> compatibleReceive(c, statmentL, nodeL)
          [] statment.kind = "Action" -> compatibleAction(c, statmentL, nodeL)
          [] statment.kind \in {"Print", "Skip", "Statement"} ->
                refinesNext(c, statmentL, nodeL)
          [] statment.kind = "Exit" -> compatibleExit(node)
          [] OTHER -> "UnknownNodeKind"

\* the pairs (cond1, cond2) for which compatible(statmentL, nodeL) calls
\* implies: only a While with a condition other than true asks, and only
\* against a GuardedChoice
impliesCalls(c, statmentL, nodeL) ==
    LET statment == programLabels[statmentL]
        node == state_to_node[nodeL]
        gss == node.guarded_states
        enterRs == guardResults(c, statment.condition, programOf(statment), gss)
        leaveRs == guardResultsNext(c, Not(statment.condition), statmentL, gss)
    IN  IF statment.kind = "While" /\ statment.condition # S_true
           /\ node.kind = "GuardedChoice"
        THEN {<<statment.condition, gss[i].expression>> : i \in 1..evaluated(enterRs)}
             \cup (IF any(enterRs) = "True"
                   THEN {<<Not(statment.condition), gss[i].expression>> :
                            i \in 1..evaluated(leaveRs)}
                   ELSE {})
        ELSE {}

(***************************************************************************)
(* The programs and projections check() is run on.                         *)
(***************************************************************************)
cnd == Cond("c")
g1 == Cond("g1")
g2 == Cond("g2")

\* the i-th pass-through statement put in front of a program
padding(i) == IF i % 3 = 1 THEN Skip ELSE IF i % 3 = 2 THEN Assign ELSE PrintStmt
\* the Statement t with k pass-through statements in front of its children
Pad(k, t) == Statement([i \in 1..k |-> padding(i)] \o t.subs)

ProgExit == Exit
ProgSeqExit == Statement(<<Exit>>)
ProgSend(msg_type) == Statement(<<Send("P", msg_type), Exit>>)
ProgWhile == Statement(<<While(cnd, Skip), Exit>>)
ProgWhileMotion == Statement(<<While(cnd, Statement(<<Motion(NameMMove)>>)), Exit>>)
ProgReceive == Statement(<<Receive(Motion(NameIdle), <<Action(NameGo, Exit)>>)>>)
\* a loop that ends the program, its body a sequence
ProgWhileLast == Statement(<<While(S_true, Statement(<<Skip, Assign>>))>>)
\* a loop whose body has two exits, the ends of the two actions
ProgWhileReceive ==
    Statement(<<While(cnd, Receive(Motion(NameIdle),
                                   <<Action(NameGo, Skip), Action(NameStop, Assign)>>)),
                Exit>>)
\* a Receive after a pass-through statement
ProgSkipReceive ==
    Statement(<<Skip, Receive(Motion(NameIdle),
                              <<Action(NameGo, Skip), Action(NameStop, Exit)>>),
                Exit>>)
\* sequences without children, and a sequence in a sequence
ProgEmptySeq == Statement(<<Statement(<<>>), Statement(<<Skip, Statement(<<>>)>>), Exit>>)
\* a Receive with one action, for the message type n
ProgReceiveAction(n) == Statement(<<Receive(Motion(NameIdle), <<Action(n, Exit)>>)>>)
\* a guarded loop that ends the program, its body an Exit
ProgWhileExit == Statement(<<While(cnd, Exit)>>)
\* an If after the Exit of the program
ProgDeadIf == Statement(<<Exit, If(<<IfComponent(cnd, Skip)>>)>>)
\* an If without a branch on the literal true
ProgIfNoTrue == Statement(<<If(<<IfComponent(cnd, Skip), IfComponent(Not(cnd), Exit)>>), Exit>>)
\* a loop on the literal true, its body a cycle of pass-through statements
ProgSpin == While(S_true, Statement(<<Skip>>))
\* a loop on the literal true that sends, before the statements follow
ProgWhileTrue(follow) ==
    Statement(<<While(S_true, Statement(<<Send("P", NameGo)>>))>> \o follow)
\* a program that ends with the i-th pass-through statement
ProgPassThrough(i) == Statement(<<padding(i)>>)
ProgSendLast == Statement(<<Send("P", NameGo)>>)
ProgIf == Statement(<<If(<<IfComponent(S_true, Skip), IfComponent(cnd, Exit)>>), Exit>>)

\* one state of every kind
ProjKinds ==
    [s \in {"m", "s", "r", "g", "x", "e"} |->
        CASE s = "m" -> ProjMotion(NameMove, "e")
          [] s = "s" -> SendMessage("P", NameGo, "e")
          [] s = "r" -> ReceiveMessage(NameGo, "e")
          [] s = "g" -> GuardedChoice(<<GuardArg(g1, "e")>>)
          [] s = "x" -> ExternalChoice(<<"e">>)
          [] s = "e" -> End]

\* q0 --receiver!msg_type--> e
ProjSend(receiver, msg_type) ==
    [s \in {"q0", "e"} |-> IF s = "q0" THEN SendMessage(receiver, msg_type, "e") ELSE End]

\* g --[ga]--> g (the loop body is silent), g --[gb]--> e
ProjLoop(ga, gb) ==
    [s \in {"g", "e"} |->
        IF s = "g" THEN GuardedChoice(<<GuardArg(ga, "g"), GuardArg(gb, "e")>>) ELSE End]

\* g --[ga]--> b --Move--> g, g --[gb]--> e
ProjLoopMotion(ga, gb) ==
    [s \in {"g", "b", "e"} |->
        CASE s = "g" -> GuardedChoice(<<GuardArg(ga, "b"), GuardArg(gb, "e")>>)
          [] s = "b" -> ProjMotion(NameMove, "g")
          [] s = "e" -> End]

\* x --> s1 --mp_name--> x, x --> s2 --?msg_type--> e
ProjChoice(mp_name, msg_type) ==
    [s \in {"x", "s1", "s2", "e"} |->
        CASE s = "x" -> ExternalChoice(<<"s1", "s2">>)
          [] s = "s1" -> ProjMotion(mp_name, "x")
          [] s = "s2" -> ReceiveMessage(msg_type, "e")
          [] s = "e" -> End]

\* q0 --P!Go--> q0, and an End state
ProjSendLoop ==
    [s \in {"q0", "e"} |-> IF s = "q0" THEN SendMessage("P", NameGo, "q0") ELSE End]

\* g --[ga]--> g, g --[gb]--> zz, a label that names no state
ProjGuardDangling(ga, gb) ==
    [s \in {"g", "e"} |->
        IF s = "g" THEN GuardedChoice(<<GuardArg(ga, "g"), GuardArg(gb, "zz")>>) ELSE End]

\* an End state, and a choice that no edge leads to
ProjDeadChoice ==
    [s \in {"e", "g"} |-> IF s = "g" THEN GuardedChoice(<<GuardArg(g1, "e")>>) ELSE End]

\* the projection that ends at once
ProjEnd == [s \in {"e"} |-> End]

\* m --Move--> e, and a second End state
ProjEnds ==
    [s \in {"m", "e", "e2"} |-> IF s = "m" THEN ProjMotion(NameMove, "e") ELSE End]

\* q0 --P!Go--> zz, a label that names no state
ProjDangling ==
    [s \in {"q0", "e"} |-> IF s = "q0" THEN SendMessage("P", NameGo, "zz") ELSE End]

Scenario(prog, proj, start) == [program |-> prog, state_to_node |-> proj, start_state |-> start]

Scenarios ==
    {Scenario(p, ProjKinds, s) : p \in {ProgExit, ProgSeqExit}, s \in DOMAIN ProjKinds}
    \cup {Scenario(Pad(k, ProgSend(n)), ProjSend(r, m), "q0") :
            k \in 0..MaxPad, n \in {NameGo, NameMsgGo}, r \in {"P", "Q"},
            m \in {NameGo, NameGoLower, NameStop}}
    \cup {Scenario(Pad(k, ProgWhile), ProjLoop(ga, gb), "g") :
            k \in 0..MaxPad, ga \in {g1, g2}, gb \in {g1, g2}}
    \cup {Scenario(ProgWhileMotion, ProjLoopMotion(g1, g2), "g"),
          Scenario(ProgWhileMotion, ProjLoopMotion(g2, g1), "g")}
    \cup {Scenario(ProgReceive, ProjChoice(n, m), "x") :
            n \in {NameIdle, NameMove}, m \in {NameGo, NameStop}}
    \cup {Scenario(ProgIf, ProjSend("P", NameGo), "q0")}
    \cup {Scenario(ProgIf, ProjLoop(g1, g2), "g")}
    \cup {Scenario(p, ProjDangling, "q0") : p \in {ProgSend(NameGo), ProgSendLast}}
    \cup {Scenario(ProgPassThrough(i), ProjEnds, s) : i \in 1..3, s \in {"m", "e"}}
    \cup {Scenario(p, ProjEnd, "e") :
            p \in {ProgWhileLast, ProgWhileReceive, ProgSkipReceive, ProgEmptySeq}}

\* a chain of k pass-through statements before Exit, against ProjEnds
ChainScenarios ==
    {Scenario(Pad(k, ProgSeqExit), ProjEnds, s) : k \in 0..MaxChain, s \in {"m", "e"}}

\* loops on the literal true; an If against states that are no GuardedChoice;
\* actions against message types that differ in case or by the prefix;
\* a guarded loop at the end of the program against a dangling target;
\* an If that control never reaches against a choice that no edge leads to
CaseScenarios ==
    {Scenario(ProgSpin, ProjKinds, s) : s \in DOMAIN ProjKinds}
    \cup {Scenario(ProgWhileTrue(follow), ProjSendLoop, s) :
            follow \in {<<>>, <<Exit>>, <<Skip, Exit>>}, s \in {"q0", "e"}}
    \cup {Scenario(p, ProjEnds, "e") : p \in {ProgIf, ProgIfNoTrue}}
    \cup {Scenario(ProgReceiveAction(n), ProjChoice(NameIdle, m), "x") :
            n \in {NameGo, NameGoLower, NameMsgGo}, m \in {NameGo, NameGoLower}}
    \cup {Scenario(ProgWhileExit, ProjGuardDangling(g1, g2), "g")}
    \cup {Scenario(ProgWhileLast, ProjKinds, s) : s \in {"m", "s", "e"}}
    \cup {Scenario(ProgDeadIf, ProjDeadChoice, "e")}

RECURSIVE Trees(_)
RECURSIVE Forests(_)
RECURSIVE Actions(_)
RECURSIVE Components(_)
\* the sequences of trees that have n nodes in all
Forests(n) ==
    IF n = 0 THEN {<<>>}
    ELSE UNION {{<<t>> \o f : t \in Trees(m), f \in Forests(n - m)} : m \in 1..n}
\* the sequences of actions that have n nodes in all
Actions(n) ==
    IF n = 0 THEN {<<>>}
    ELSE UNION {{<<Action(NameGo, t)>> \o f : t \in Trees(m - 1), f \in Actions(n - m)} :
                    m \in 2..n}
\* the sequences of branches that have n nodes in all
Components(n) ==
    IF n = 0 THEN {<<>>}
    ELSE UNION {{<<IfComponent(S_true, t)>> \o f : t \in Trees(m - 1), f \in Components(n - m)} :
                    m \in 2..n}
\* the program trees of n nodes whose leaves are Skip
Trees(n) ==
    IF n = 0 THEN {}
    ELSE (IF n = 1 THEN {Skip} ELSE {})
         \cup {Statement(f) : f \in Forests(n - 1)}
         \cup {While(cnd, t) : t \in Trees(n - 1)}
         \cup UNION {{Receive(m, a) : m \in Trees(k), a \in Actions(n - 1 - k)} : k \in 1..(n - 1)}
         \cup {If(c) : c \in Components(n - 1)}

\* every program tree of at most MaxNodes nodes, against ProjEnd
TreeScenarios == {Scenario(t, ProjEnd, "e") : t \in UNION {Trees(n) : n \in 1..MaxNodes}}

RECURSIVE conditionsOf(_)
\* the conditions of the While nodes of a tree
conditionsOf(t) ==
    (IF t.kind = "While" /\ t.condition # S_true THEN {t.condition} ELSE {})
    \cup UNION {conditionsOf(t.subs[i]) : i \in DOMAIN t.subs}

\* the guards of a projection
guardsOf(proj) ==
    UNION {{proj[s].guarded_states[i].expression : i \in DOMAIN proj[s].guarded_states} :
            s \in DOMAIN proj}

\* the implications check() can ask about in a scenario
questions(sc) ==
    {<<cond, g>> : cond \in UNION {{a, Not(a)} : a \in conditionsOf(sc.program)},
                   g \in guardsOf(sc.state_to_node)}

(***************************************************************************)
(* Refinement(program, projection): the state after the constructor.       *)
(***************************************************************************)
\* no carrier object has been made
noCarrier ==
    /\ pinEnable = "none"
    /\ stepsCart = 0
    /\ angleCart = 0
    /\ cart_x = 0
    /\ cart_y = 0
    /\ cpc = "absent"
    /\ method = "none"
    /\ arg = 0
    /\ steps = 0
    /\ procs = <<>>
    /\ nproc = 0
    /\ raised = "none"

InitOn(scenarios, calls) ==
    \E sc \in scenarios :
    \E o \in SUBSET questions(sc) :
        /\ noCarrier
        /\ program = sc.program
        /\ programLabels = label_as_root(sc.program)
        /\ state_to_node = sc.state_to_node
        /\ start_state = sc.start_state
        /\ nextLabel = initNextLabel(label_as_root(sc.program))
        /\ oracle = o
        /\ cachedImplication = <<>>
        /\ compat = <<>>
        /\ changed = FALSE
        /\ pc = "constructed"
        /\ todoL = {}
        /\ l = None
        /\ todoS = {}
        /\ result = "none"
        /\ error = "none"
        /\ nRemoved = 0
        /\ nOracle = 0
        /\ nCompatible = calls

Init == InitOn(Scenarios, <<>>)

\* the runs on the chains, with the calls of compatible counted
InitCount == InitOn(ChainScenarios, <<0>>)

\* the runs on the cases of compatible, with the calls counted
InitCase == InitOn(CaseScenarios, <<0>>)

(***************************************************************************)
(* check()                                                                 *)
(***************************************************************************)
inputs == <<program, programLabels, state_to_node, start_state, nextLabel, oracle>>

compat_init_startOnly == [lb \in allLabels |-> {start_state}]

\* line 185: every label starts with a copy of allState
compat_init == [lb \in allLabels |-> allState]

\* lines 183-187
check_begin ==
    /\ pc = "constructed"
    /\ compat' = compat_init
    /\ changed' = TRUE
    /\ pc' = "while"
    /\ UNCHANGED <<cartVars, inputs, cachedImplication, todoL, l, todoS, result, error, nRemoved, nOracle, nCompatible>>

unflagged_kept(ch) == ch

\* line 193: "changed = False"
unflagged(ch) == FALSE

\* lines 188-194: the loop test succeeds, a pass over allLabels starts
while_pass ==
    /\ pc = "while"
    /\ changed
    /\ changed' = unflagged(changed)
    /\ todoL' = allLabels
    /\ pc' = "for_l"
    /\ UNCHANGED <<cartVars, inputs, cachedImplication, compat, l, todoS, result, error, nRemoved, nOracle, nCompatible>>

\* line 205
verdict(cm) == Bool(start_state \in cm[initLabel])

\* lines 188, 205: the loop test fails, check() returns
check_return ==
    /\ pc = "while"
    /\ ~changed
    /\ result' = verdict(compat)
    /\ pc' = "done"
    /\ UNCHANGED <<cartVars, inputs, cachedImplication, compat, changed, todoL, l, todoS, error,
                   nRemoved, nOracle, nCompatible>>

\* lines 194-195: the next label, in the order the set allLabels yields them,
\* and the copy of its states
for_label ==
    /\ pc = "for_l"
    /\ \E lb \in todoL :
        /\ l' = lb
        /\ todoL' = todoL \ {lb}
        /\ todoS' = compat[lb]
    /\ pc' = "for_s"
    /\ UNCHANGED <<cartVars, inputs, cachedImplication, compat, changed, result, error, nRemoved, nOracle, nCompatible>>

\* line 194: the labels are exhausted, back to the loop test
for_label_end ==
    /\ pc = "for_l"
    /\ todoL = {}
    /\ pc' = "while"
    /\ UNCHANGED <<cartVars, inputs, cachedImplication, compat, changed, todoL, l, todoS, result, error,
                   nRemoved, nOracle, nCompatible>>

cached_forgets(qs) == cachedImplication

\* the cache after compatible(l, s) asked the questions qs
cached(qs) ==
    [q \in DOMAIN cachedImplication \cup qs |->
        IF q \in DOMAIN cachedImplication THEN cachedImplication[q]
        ELSE discharge(q[1], q[2])]

\* one more call of compatible (line 196)
counted(calls) == IF calls = <<>> THEN calls ELSE <<calls[1] + 1>>

flagged_forgotten(ch) == ch

\* line 199: "changed = True"
flagged(ch) == TRUE

discard_clear(set, s) == {}

discard_rebuild(set, s) == allState \ {s}

discard_nothing(set, s) == set

\* self.compat[l].discard(s)
discard(set, s) == set \ {s}

\* lines 195-200: one state of the copy
for_state ==
    /\ pc = "for_s"
    /\ \E s \in todoS :
        LET r == compatible(compat, l, s)
            qs == impliesCalls(compat, l, s)
        IN  /\ cachedImplication' = cached(qs)
            /\ nOracle' = nOracle + Cardinality(qs \ DOMAIN cachedImplication)
            /\ todoS' = todoS \ {s}
            /\ nCompatible' = counted(nCompatible)
            /\ CASE r = "True" ->
                    UNCHANGED <<compat, changed, nRemoved, pc, error>>
                 [] r = "False" ->
                    /\ changed' = flagged(changed)
                    /\ compat' = [compat EXCEPT ![l] = discard(@, s)]
                    /\ nRemoved' = IF nRemoved < MaxCount THEN nRemoved + 1 ELSE nRemoved
                    /\ UNCHANGED <<pc, error>>
                 [] OTHER ->
                    /\ error' = r
                    /\ pc' = "error"
                    /\ UNCHANGED <<compat, changed, nRemoved>>
    /\ UNCHANGED <<cartVars, inputs, todoL, l, result>>

\* line 195: the copy is exhausted, on to the next label
for_state_end ==
    /\ pc = "for_s"
    /\ todoS = {}
    /\ pc' = "for_l"
    /\ UNCHANGED <<cartVars, inputs, cachedImplication, compat, changed, todoL, l, todoS, result, error,
                   nRemoved, nOracle, nCompatible>>

Next ==
    \/ check_begin
    \/ while_pass
    \/ check_return
    \/ for_label
    \/ for_label_end
    \/ for_state
    \/ for_state_end

Spec == Init /\ [][Next]_vars

\* check() runs without pause until it returns or raises
FairSpec == Spec /\ WF_vars(Next)

CountSpec == InitCount /\ [][Next]_vars

CaseSpec == InitCase /\ [][Next]_vars

\* the runs on the enumerated program trees
InitTree == InitOn(TreeScenarios, <<>>)

TreeSpec == InitTree /\ [][Next]_vars

(***************************************************************************)
(* carrier: setAngleCart, moveCart and the four wheel processes.           *)
(***************************************************************************)
coeff_straight == 1
coeff_side == 2
coeff_rotate == 1

\* the arguments the calls are made with: angles in degrees, distances in mm
Angles == {-90, 0, 90, 180, 360, 450}
Distances == {-100, 0, 100, 500}

\* line 182, for an angle that is a multiple of 90: (angle/360)*14720*1.6
stepsOfAngle(angle) == (angle * 14720 * 16) \div (360 * 10)
\* line 199, the whole steps of distance/157.075*3200+(distance/2000)*3200
stepsOfDistance(distance) == (distance * 3200 * 1000) \div 157075 + (distance * 3200) \div 2000

\* cos and sin of an angle in degrees that is a multiple of 90
cosDeg(angle) == CASE angle % 360 = 0 -> 1 [] angle % 360 = 180 -> -1 [] OTHER -> 0
sinDeg(angle) == CASE angle % 360 = 90 -> 1 [] angle % 360 = 270 -> -1 [] OTHER -> 0

\* lines 70-88: the call of doStep a wheel process is to make
doStep(steps_motor) ==
    IF steps_motor > 0
    THEN [state |-> "initial", steps |-> steps_motor, dir |-> 1]
    ELSE [state |-> "initial", steps |-> -steps_motor, dir |-> 0]

\* lines 65-93: the four Process objects, not yet started
compute_steps_procs(straight, side, rotate) ==
    <<doStep(coeff_straight * straight + coeff_side * side - coeff_rotate * rotate),
      doStep(coeff_straight * straight - coeff_side * side - coeff_rotate * rotate),
      doStep(coeff_straight * straight - coeff_side * side + coeff_rotate * rotate),
      doStep(coeff_straight * straight + coeff_side * side + coeff_rotate * rotate)>>

\* no Refinement object has been made
noRefinement ==
    /\ program = None
    /\ programLabels = <<>>
    /\ state_to_node = <<>>
    /\ start_state = "none"
    /\ nextLabel = <<>>
    /\ oracle = {}
    /\ cachedImplication = <<>>
    /\ compat = <<>>
    /\ changed = FALSE
    /\ pc = "absent"
    /\ todoL = {}
    /\ l = None
    /\ todoS = {}
    /\ result = "none"
    /\ error = "none"
    /\ nRemoved = 0
    /\ nOracle = 0
    /\ nCompatible = <<>>

\* lines 20-48: the state after carrier(); GPIO.setup(pinEnable, GPIO.OUT)
\* names no initial level, so the pin is at either level
InitCart ==
    /\ noRefinement
    /\ pinEnable \in {"LOW", "HIGH"}
    /\ stepsCart = 0
    /\ angleCart = 0
    /\ cart_x = 0
    /\ cart_y = 0
    /\ cpc = "idle"
    /\ method = "none"
    /\ arg = 0
    /\ steps = 0
    /\ procs = <<>>
    /\ nproc = 0
    /\ raised = "none"

\* the assertion of the first line of a call: the call goes on, or raises
\* and is over
precondition(name, value, ok) ==
    IF ok
    THEN /\ cpc' = "motors_start"
         /\ method' = name
         /\ arg' = value
         /\ raised' = "none"
    ELSE /\ raised' = "AssertionError"
         /\ UNCHANGED <<cpc, method, arg>>

\* line 180
setAngleCart ==
    /\ cpc = "idle"
    /\ \E angle \in Angles : precondition("setAngleCart", angle, 0 <= angle /\ angle <= 360)
    /\ UNCHANGED <<refinementVars, pinEnable, stepsCart, angleCart, cart_x, cart_y, steps,
                   procs, nproc>>

\* line 195
moveCart ==
    /\ cpc = "idle"
    /\ \E distance \in Distances : precondition("moveCart", distance, distance > 0)
    /\ UNCHANGED <<refinementVars, pinEnable, stepsCart, angleCart, cart_x, cart_y, steps,
                   procs, nproc>>

\* lines 181-182 and 197-199: __motors_start__(), then the local steps
motors_start ==
    /\ cpc = "motors_start"
    /\ pinEnable' = "LOW"
    /\ steps' = IF method = "setAngleCart" THEN stepsOfAngle(arg) ELSE stepsOfDistance(arg)
    /\ cpc' = "compute_steps"
    /\ UNCHANGED <<refinementVars, stepsCart, angleCart, cart_x, cart_y, method, arg, procs,
                   nproc, raised>>

\* lines 183 and 200: __compute_steps__ is entered; lines 65-93
compute_steps ==
    /\ cpc = "compute_steps"
    /\ procs' = IF method = "setAngleCart"
                THEN compute_steps_procs(0, 0, steps - stepsCart)
                ELSE compute_steps_procs(steps, 0, 0)
    /\ nproc' = 1
    /\ cpc' = "start"
    /\ UNCHANGED <<refinementVars, pinEnable, stepsCart, angleCart, cart_x, cart_y, method,
                   arg, steps, raised>>

\* the caller goes on to process nproc + 1, or to the position after the
\* fourth
advance(after) ==
    IF nproc < Len(procs)
    THEN nproc' = nproc + 1 /\ UNCHANGED cpc
    ELSE nproc' = 1 /\ cpc' = after

\* lines 94-97: pN.start()
process_start ==
    /\ cpc = "start"
    /\ procs' = [procs EXCEPT ![nproc].state = "started"]
    /\ advance("join")
    /\ UNCHANGED <<refinementVars, pinEnable, stepsCart, angleCart, cart_x, cart_y, method,
                   arg, steps, raised>>

\* a wheel process has made its steps and ends
wheel_exit ==
    \E i \in DOMAIN procs :
        /\ procs[i].state = "started"
        /\ procs' = [procs EXCEPT ![i].state = "stopped"]
        /\ UNCHANGED <<refinementVars, pinEnable, stepsCart, angleCart, cart_x, cart_y, cpc,
                       method, arg, steps, nproc, raised>>

joinable_nowait(i) == TRUE

\* Process.join() returns when the process has ended
joinable(i) == procs[i].state = "stopped"

\* lines 99-102: pN.join()
join ==
    /\ cpc = "join"
    /\ joinable(nproc)
    /\ advance(IF method = "setAngleCart" THEN "setAngleCart_update" ELSE "moveCart_update")
    /\ UNCHANGED <<refinementVars, pinEnable, stepsCart, angleCart, cart_x, cart_y, method,
                   arg, steps, procs, raised>>

\* lines 184-185
setAngleCart_update ==
    /\ cpc = "setAngleCart_update"
    /\ stepsCart' = steps
    /\ angleCart' = arg
    /\ cpc' = "motors_shutdown"
    /\ UNCHANGED <<refinementVars, pinEnable, cart_x, cart_y, method, arg, steps, procs,
                   nproc, raised>>

\* line 211: __updateDistanceRos__("x", "y", self.angleCart, distance, 6.4),
\* lines 172-173
moveCart_update ==
    /\ cpc = "moveCart_update"
    /\ cart_x' = cosDeg(angleCart) * arg
    /\ cart_y' = sinDeg(angleCart) * arg
    /\ cpc' = "motors_shutdown"
    /\ UNCHANGED <<refinementVars, pinEnable, stepsCart, angleCart, method, arg, steps, procs,
                   nproc, raised>>

\* lines 186 and 214: __motors_shutdown__(), and the call returns
motors_shutdown ==
    /\ cpc = "motors_shutdown"
    /\ pinEnable' = "HIGH"
    /\ cpc' = "idle"
    /\ UNCHANGED <<refinementVars, stepsCart, angleCart, cart_x, cart_y, method, arg, steps,
                   procs, nproc, raised>>

NextCart ==
    \/ setAngleCart
    \/ moveCart
    \/ motors_start
    \/ compute_steps
    \/ process_start
    \/ wheel_exit
    \/ join
    \/ setAngleCart_update
    \/ moveCart_update
    \/ motors_shutdown

CartSpec == InitCart /\ [][NextCart]_vars

(***************************************************************************)
(* Properties                                                              *)
(***************************************************************************)
returned == pc = "done"
kindOf(lb) == programLabels[lb].kind
nodeKind(s) == state_to_node[s].kind
pairs == Cardinality(allLabels) * Cardinality(allState)
\* the pairs check() has taken out of the universal relation
removedPairs == {p \in allLabels \X allState : p[2] \notin compat[p[1]]}
\* a relation is closed when each of its pairs is compatible against it
closed(R) == \A lb \in allLabels : \A s \in R[lb] : compatible(R, lb, s) = "True"

\* C1: when check() returns, every pair left in compat is compatible when
\* compatible is evaluated against that final relation.
C1_ClosedAtReturn == returned => closed(compat)

\* check() returned after it removed pairs in a pass and kept others
C1_Witness ==
    /\ returned
    /\ nRemoved > 0
    /\ \E lb \in allLabels : compat[lb] # {}
    /\ \E lb \in allLabels : kindOf(lb) = "While"

\* C2: every closed relation over (label, state) pairs is contained in the
\* relation check() returns with (relations of up to MaxClosedPairs pairs).
C2_Maximal ==
    returned /\ pairs <= MaxClosedPairs =>
        \A R \in [allLabels -> SUBSET allState] :
            closed(R) => \A lb \in allLabels : R[lb] \subseteq compat[lb]

\* check() returned a proper, non-empty sub-relation of the universal one
C2_Witness ==
    /\ returned
    /\ pairs <= MaxClosedPairs
    /\ nRemoved > 0
    /\ start_state \in compat[initLabel]

\* C3: check() terminates: it returns a verdict, or an exception leaves it.
C3_Terminates == <>(pc = "done" \/ pc = "error")

\* check() returned after a pass that removed pairs
C3_Witness == returned /\ nRemoved > 0 /\ ~changed

\* C4: after the initialisation no step of check() adds a state to compat[l].
C4_OnlyShrinks ==
    [][pc # "constructed" =>
        /\ DOMAIN compat' = DOMAIN compat
        /\ \A lb \in DOMAIN compat : compat'[lb] \subseteq compat[lb]]_vars

\* a second state has been discarded from the states of one label
C4_Witness ==
    /\ pc = "for_s"
    /\ Cardinality(allState \ compat[l]) >= 2

\* C5: the removals number at most |L| x |S| and no pair is removed twice
\* (the number of removals is the number of pairs missing from compat).
C5_RemovalsBounded ==
    pc # "constructed" =>
        /\ nRemoved <= pairs
        /\ nRemoved = Cardinality(removedPairs)

\* check() returned after removing pairs in more than one label
C5_Witness ==
    /\ returned
    /\ nRemoved >= 3
    /\ Cardinality({p[1] : p \in removedPairs}) >= 2

\* C6: for the program that is only Exit, check() returns true when the start
\* state is an End node and false for every other kind of start state.
C6_BaseCase ==
    program \in {ProgExit, ProgSeqExit} =>
        /\ pc # "error"
        /\ returned => result = Bool(nodeKind(start_state) = "End")

\* Exit alone was checked against a start state that is a GuardedChoice
C6_Witness ==
    /\ returned
    /\ program = ProgExit
    /\ nodeKind(start_state) = "GuardedChoice"
    /\ result = "False"

\* C7: Send(P, "Go"); Exit refines q0 --P!Go--> e, does not refine
\* q0 --P!Stop--> e, and check() raises nothing on either.
C7_StraightLine ==
    program = ProgSend(NameGo) =>
        /\ pc # "error"
        /\ returned /\ state_to_node = ProjSend("P", NameGo) => result = "True"
        /\ returned /\ state_to_node = ProjSend("P", NameStop) => result = "False"

\* the program was checked against the projection sending "Stop"
C7_Witness ==
    /\ returned
    /\ program = ProgSend(NameGo)
    /\ state_to_node = ProjSend("P", NameStop)
    /\ result = "False"

loopProgram == program \in {Pad(k, ProgWhile) : k \in 0..MaxPad}

\* C8 as stated: the loop refines the choice iff cond => g1 and ~cond => g2,
\* and when it does, the choice with the guards of the two edges swapped is
\* not refined.
C8_SwapFlips ==
    returned /\ loopProgram =>
        /\ state_to_node = ProjLoop(g1, g2) =>
            result = Bool(<<cnd, g1>> \in oracle /\ <<Not(cnd), g2>> \in oracle)
        /\ state_to_node = ProjLoop(g2, g1)
           /\ <<cnd, g1>> \in oracle /\ <<Not(cnd), g2>> \in oracle => result = "False"

\* C8 amended: the verdict is implies(cond, ga) and implies(~cond, gb) for
\* the guard ga of the edge to the body and the guard gb of the edge to the
\* exit, so swapping g1 and g2 gives false unless the oracle also proves
\* cond => g2 and ~cond => g1.
C8_LoopCoverage ==
    returned =>
        /\ loopProgram =>
            \A ga, gb \in {g1, g2} :
                state_to_node = ProjLoop(ga, gb) =>
                    result = Bool(<<cnd, ga>> \in oracle /\ <<Not(cnd), gb>> \in oracle)
        /\ program = ProgWhileMotion =>
            \A ga, gb \in {g1, g2} :
                state_to_node = ProjLoopMotion(ga, gb) =>
                    result = Bool(<<cnd, ga>> \in oracle /\ <<Not(cnd), gb>> \in oracle)

\* the loop was checked against the swapped choice with an oracle that proves
\* cond => g1 and ~cond => g2 only
C8_Witness ==
    /\ returned
    /\ program = ProgWhile
    /\ state_to_node = ProjLoop(g2, g1)
    /\ oracle = {<<cnd, g1>>, <<Not(cnd), g2>>}
    /\ result = "False"

\* a target of an ExternalChoice is covered by Receive lb when it is related
\* to the motion or to one of the actions
covered(lb, t) ==
    \/ t \in compat[motionOf(programLabels[lb])]
    \/ \E i \in DOMAIN actionsOf(programLabels[lb]) : t \in compat[actionsOf(programLabels[lb])[i]]

\* C9: a Receive stays related to an ExternalChoice only if every target of
\* the choice is covered; with an uncovered target the pair is removed and the
\* verdict for the projection starting at the choice is false.
C9_ExternalChoice ==
    returned =>
        /\ \A lb \in allLabels : \A s \in allState :
            kindOf(lb) = "Receive" /\ nodeKind(s) = "ExternalChoice" =>
                (s \in compat[lb] <=>
                    \A i \in DOMAIN state_to_node[s].end_state :
                        covered(lb, state_to_node[s].end_state[i]))
        /\ program = ProgReceive =>
            result = Bool(state_to_node = ProjChoice(NameIdle, NameGo))

\* the choice has a target whose motion the program does not run: one target
\* is covered, the other is not
C9_Witness ==
    /\ returned
    /\ program = ProgReceive
    /\ state_to_node = ProjChoice(NameMove, NameGo)
    /\ covered(2, "s2") /\ ~covered(2, "s1")
    /\ "x" \notin compat[2]
    /\ result = "False"

ambiguousLabels == {lb \in allLabels : Cardinality(nextLabel[lb]) >= 2}

\* C10 as stated: a CFA with a label that has two or more fallthrough
\* successors never lets check() return a verdict.
C10_AmbiguousNeverReturns == ambiguousLabels # {} => ~returned

\* C10 amended: the ambiguous-successors error is raised only when
\* nextStatement is asked for a label with two or more successors; the labels
\* of Receive and If nodes have several successors and are never asked for, so
\* a CFA whose only such labels are Receive and If labels never raises it.
C10_AmbiguityOnlyWhenAsked ==
    /\ error = "AmbiguousSuccessor" =>
        /\ pc = "error"
        /\ l \in ambiguousLabels
        /\ kindOf(l) \notin {"Receive", "If", "Exit"}
    /\ (\A lb \in ambiguousLabels : kindOf(lb) \in {"Receive", "If"}) =>
        error # "AmbiguousSuccessor"

\* check() returned a verdict for a program whose Receive has two successors
C10_Witness ==
    /\ returned
    /\ result \in {"True", "False"}
    /\ \E lb \in ambiguousLabels : kindOf(lb) = "Receive"

\* C11: for an If label lb and a GuardedChoice state s, compatible(lb, s)
\* ends with a boolean, true exactly when every branch (cond, prog) of the If
\* has a guarded state (g, t) of the node at s with implies(cond, g) and t in
\* compat of the entry label of prog.
C11_IfGuardedChoice ==
    pc # "constructed" =>
        \A lb \in allLabels : \A s \in allState :
            kindOf(lb) = "If" /\ nodeKind(s) = "GuardedChoice" =>
                LET comps == if_listOf(programLabels[lb])
                    gss == state_to_node[s].guarded_states
                IN  compatible(compat, lb, s) =
                        Bool(\A i \in DOMAIN comps : \E j \in DOMAIN gss :
                                /\ implies(programLabels[comps[i]].condition, gss[j].expression)
                                /\ gss[j].id \in compat[programOf(programLabels[comps[i]])])

\* the labels a node names as the end of an edge or the target of a choice
targetsOf(node) ==
    {node.end_state[i] : i \in DOMAIN node.end_state}
    \cup {node.guarded_states[i].id : i \in DOMAIN node.guarded_states}
\* the targets that have no node in state_to_node
unresolved == UNION {targetsOf(state_to_node[s]) : s \in allState} \ allState

\* C12: when an edge of the projection ends in a label that has no node in
\* state_to_node, check() aborts: it never returns a verdict.
C12_UnresolvedAborts == unresolved # {} => ~returned

\* C13: within a run every call of implies with the same pair of conditions
\* returns the same value, the one the decision procedure gave for that pair,
\* and the decision procedure has been called once for each distinct pair
\* asked so far, never twice for the same pair.
C13_CacheSound ==
    /\ \A q \in DOMAIN cachedImplication :
            /\ cachedImplication[q] = discharge(q[1], q[2])
            /\ implies(q[1], q[2]) = cachedImplication[q]
    /\ nOracle = Cardinality(DOMAIN cachedImplication)

\* check() has returned after more than one pass (a pair was removed, so a
\* further pass followed) with a While still related to a GuardedChoice:
\* that pair was evaluated in every pass, and its implications, asked again,
\* were answered from the cache.
C13_Witness ==
    /\ returned
    /\ nRemoved > 0
    /\ nOracle >= 2
    /\ \E lb \in allLabels : \E s \in compat[lb] :
            /\ kindOf(lb) = "While"
            /\ nodeKind(s) = "GuardedChoice"
            /\ impliesCalls(compat, lb, s) # {}
            /\ impliesCalls(compat, lb, s) \subseteq DOMAIN cachedImplication

\* the statements compatible passes through to their successor
passThrough == {"Skip", "Print", "Assign"}
EndStates == {s \in allState : nodeKind(s) = "End"}

\* C14: _refines(None, s) is true exactly when the node at s is End, so when
\* check() returns, a Skip, Print or Assign that has no successor is related
\* to the End states and to no other state.
C14_EndOfProgram ==
    /\ \A s \in allState : _refines(compat, None, s) = Bool(nodeKind(s) = "End")
    /\ returned =>
        \A lb \in allLabels :
            kindOf(lb) \in passThrough /\ nextLabel[lb] = {} => compat[lb] = EndStates

\* check() has returned on a program whose last statement is a pass-through
\* statement, against a projection with two End states and another state
C14_Witness ==
    /\ returned
    /\ result = "True"
    /\ Cardinality(EndStates) = 2
    /\ EndStates # allState
    /\ \E lb \in allLabels :
            kindOf(lb) \in passThrough /\ nextLabel[lb] = {} /\ compat[lb] = EndStates

\* C15: on a program and a projection built from the listed kinds only,
\* check() never reaches the error for a kind compatible does not handle:
\* no evaluation of a pair ends in it.
C15_NoUnhandledKind ==
    /\ error # "UnknownNodeKind"
    /\ pc = "for_s" => \A s \in todoS : compatible(compat, l, s) # "UnknownNodeKind"

\* the calls of compatible made so far, in a run that counts them
calls == nCompatible[1]

\* C16 as stated, the linear bound read with the constant 4: check() makes
\* at most 4 * |L| * |S| calls of compatible, over all passes.
C16_LinearEvaluations == nCompatible # <<>> => calls <= 4 * pairs

\* C16: a pass makes at most |L| * |S| calls of compatible and every pass
\* but the last removes a pair, so check() makes at most
\* |L| * |S| * (removals + 1) calls, which is at most |L| * |S| * (|L| * |S| + 1).
C16_EvaluationsBounded ==
    nCompatible # <<>> =>
        /\ calls <= pairs * (nRemoved + 1)
        /\ nRemoved <= pairs

\* check() has returned after more than four times |L| * |S| calls
C16_Witness ==
    /\ returned
    /\ nCompatible # <<>>
    /\ calls > 4 * pairs
    /\ calls <= pairs * (nRemoved + 1)

\* the relation check() starts from, the snapshot at the start of the first pass
universal == [lb \in allLabels |-> allState]
\* the first pass is under way: it makes |L| * |S| calls, one for each pair
firstPass == nCompatible # <<>> /\ pc = "for_s" /\ calls < pairs

\* C17 as stated, for the first pass: every pair is evaluated against the
\* relation as it was when the pass started, so its outcome is the one the
\* universal relation gives whatever was removed earlier in the pass.
C17_SnapshotPass ==
    firstPass =>
        \A s \in todoS : compatible(compat, l, s) = compatible(universal, l, s)

\* C17: a pair is evaluated against the relation as it stands at that
\* moment and a pair found incompatible leaves compat in the same step, within
\* the pass, so the evaluations that follow in the pass read the relation
\* without it; a pair found compatible leaves the relation as it is.
C17_InPlace ==
    [][pc = "for_s" /\ todoS' # todoS =>
        LET s == CHOOSE x \in todoS \ todoS' : TRUE
            r == compatible(compat, l, s)
        IN  /\ r = "True" => compat' = compat
            /\ r = "False" => compat' = [compat EXCEPT ![l] = @ \ {s}]
            /\ r \notin {"True", "False"} => compat' = compat /\ pc' = "error"]_vars

\* in the first pass a pair is about to be evaluated whose outcome against
\* the current relation is False while against the relation at the start of
\* the pass it is True: an earlier removal of this pass decides it
C17_Witness ==
    /\ firstPass
    /\ \E s \in todoS :
            /\ compatible(compat, l, s) = "False"
            /\ compatible(universal, l, s) = "True"

\* the list of labels buildCFA returns for the node at lb
exits(lb) == buildCFA(programLabels, [x \in allLabels |-> {}], {}, lb).lastLabel
RECURSIVE descendants(_)
\* the labels of the subtree at lb
descendants(lb) ==
    {lb} \cup UNION {descendants(programLabels[lb].subs[i]) : i \in DOMAIN programLabels[lb].subs}
labelsOf(kind) == {lb \in allLabels : kindOf(lb) = kind}
\* the labels after whose statement the program is over
lastOfProgram == exits(initLabel)
\* lb is the i-th child of the sequence q and is not its last child
childBefore(q, i, lb) ==
    kindOf(q) = "Statement" /\ i \in 1..(Len(childrenOf(programLabels[q])) - 1)
    /\ childrenOf(programLabels[q])[i] = lb

\* C18: the label of a While has no edge to the entry of its body, every
\* label the body returns has the While's label as successor, buildCFA
\* returns the While's own label for the loop, and the While's label has at
\* most one successor, outside the loop: the statement that follows the loop
\* in a sequence, none when the loop ends the program.
C18_WhileCFA ==
    \A w \in labelsOf("While") :
        LET body == programOf(programLabels[w])
        IN  /\ body \notin nextLabel[w]
            /\ \A e \in exits(body) : w \in nextLabel[e]
            /\ exits(w) = {w}
            /\ Cardinality(nextLabel[w]) <= 1
            /\ nextLabel[w] \cap descendants(w) = {}
            /\ \A q \in allLabels : \A i \in 1..Cardinality(allLabels) :
                    childBefore(q, i, w) =>
                        nextLabel[w] = {childrenOf(programLabels[q])[i + 1]}
            /\ w \in lastOfProgram => nextLabel[w] = {}

\* a loop whose body returns two labels and which is followed by a statement
C18_Witness ==
    \E w \in labelsOf("While") :
        /\ Cardinality(exits(programOf(programLabels[w]))) = 2
        /\ \A e \in exits(programOf(programLabels[w])) : nextLabel[e] = {w}
        /\ Cardinality(nextLabel[w]) = 1

\* the labels of a sequence of nodes
labelsIn(subs) == {subs[i] : i \in DOMAIN subs}
\* the labels outside the Receive at r that have r as successor and are not
\* exits of its motion: the predecessors buildCFA was called with
incoming(r) == {p \in allLabels \ descendants(r) : r \in nextLabel[p]}

\* C19 as stated: every predecessor of a Receive is connected to the label of
\* its motion, every label the motion returns has the Receive's label as
\* successor, each action has the Receive's label as sole predecessor, and
\* buildCFA returns the union of what the actions return.
C19_MotionFromPredecessors ==
    \A r \in labelsOf("Receive") :
        LET motion == motionOf(programLabels[r])
            actions == labelsIn(actionsOf(programLabels[r]))
        IN  /\ \A p \in incoming(r) : motion \in nextLabel[p]
            /\ \A e \in exits(motion) : r \in nextLabel[e]
            /\ \A a \in actions : \A p \in allLabels : a \in nextLabel[p] <=> p = r
            /\ exits(r) = UNION {exits(a) : a \in actions}

\* C19: the motion of a Receive and each of its actions have the Receive's
\* own label as sole predecessor, so the successors of the Receive's label are
\* the motion and the actions and a predecessor of the Receive leads to the
\* Receive's label only; every label the motion returns has the Receive's
\* label as successor; buildCFA returns the union of what the actions return.
C19_ReceiveCFA ==
    \A r \in labelsOf("Receive") :
        LET motion == motionOf(programLabels[r])
            actions == labelsIn(actionsOf(programLabels[r]))
        IN  /\ nextLabel[r] = {motion} \cup actions
            /\ \A p \in allLabels \ {r} : nextLabel[p] \cap ({motion} \cup actions) = {}
            /\ \A p \in incoming(r) : nextLabel[p] = {r}
            /\ \A e \in exits(motion) : r \in nextLabel[e]
            /\ exits(r) = UNION {exits(a) : a \in actions}

\* a Receive with two actions that follows a statement: the statement leads
\* to the Receive, not to the motion
C19_Witness ==
    \E r \in labelsOf("Receive") :
        /\ Len(actionsOf(programLabels[r])) = 2
        /\ \E p \in incoming(r) : kindOf(p) = "Skip" /\ nextLabel[p] = {r}
        /\ nextLabel[motionOf(programLabels[r])] = {r}

\* C20: buildCFA gives every label a set of labels as successors, and for a
\* sequence: with no children it returns the sequence's own label; otherwise
\* the sequence's label has its first child as successor, every label
\* child i returns has child i+1 as successor, and it returns what the last
\* child returns.
C20_SeqCFA ==
    /\ DOMAIN nextLabel = allLabels
    /\ \A lb \in allLabels : nextLabel[lb] \subseteq allLabels
    /\ \A q \in labelsOf("Statement") :
        LET children == childrenOf(programLabels[q])
        IN  IF Len(children) = 0 THEN exits(q) = {q}
            ELSE /\ children[1] \in nextLabel[q]
                 /\ \A i \in 1..(Len(children) - 1) :
                        \A e \in exits(children[i]) : children[i + 1] \in nextLabel[e]
                 /\ exits(q) = exits(children[Len(children)])

\* a sequence whose first child returns two labels, both led to the second
\* child, and whose last child is what the sequence returns
C20_Witness ==
    \E q \in labelsOf("Statement") :
        LET children == childrenOf(programLabels[q])
        IN  /\ Len(children) = 2
            /\ Cardinality(exits(children[1])) = 2
            /\ \A e \in exits(children[1]) : nextLabel[e] = {children[2]}
            /\ exits(q) = {children[2]}

\* a While whose condition is the literal true
whileTrue(lb) == kindOf(lb) = "While" /\ programLabels[lb].condition = S_true

\* C21: for a While on the literal true and a state s of any kind,
\* compatible holds exactly when s is in compat of the entry of the body;
\* what the relation holds for the loop's successor changes nothing, and when
\* check() returns the loop is related to the states its body is related to.
C21_WhileTrue ==
    pc # "constructed" =>
        \A w \in allLabels : whileTrue(w) =>
            /\ \A s \in allState :
                /\ compatible(compat, w, s) = Bool(s \in compat[programOf(programLabels[w])])
                /\ \A n \in nextLabel[w] : \A X \in SUBSET allState :
                        compatible([compat EXCEPT ![n] = X], w, s) = compatible(compat, w, s)
            /\ returned => compat[w] = compat[programOf(programLabels[w])]

\* check() has returned with a While on the literal true related to a
\* SendMessage state and not to the End state, while the statement that
\* follows the loop is related to the End state only
C21_Witness ==
    /\ returned
    /\ \E w \in allLabels :
        /\ whileTrue(w)
        /\ \E s \in compat[w] : nodeKind(s) = "SendMessage"
        /\ \E s \in allState \ compat[w] : nodeKind(s) = "End"
        /\ \E n \in nextLabel[w] : compat[n] # {} /\ compat[n] \cap compat[w] = {}

\* the branches of the If at lb whose condition is the literal true
trivial(lb) ==
    {c \in labelsIn(if_listOf(programLabels[lb])) : programLabels[c].condition = S_true}

\* C22: for an If and a state s whose node is not a GuardedChoice, compatible
\* holds exactly when a branch on the literal true has s in compat of the
\* entry of its body; what the relation holds for the bodies of the other
\* branches changes nothing, and without a branch on the literal true the
\* result is false.
C22_IfOtherNode ==
    pc # "constructed" =>
        \A lb \in labelsOf("If") : \A s \in allState :
            nodeKind(s) # "GuardedChoice" =>
                /\ compatible(compat, lb, s) =
                        Bool(\E c \in trivial(lb) : s \in compat[programOf(programLabels[c])])
                /\ \A c \in labelsIn(if_listOf(programLabels[lb])) \ trivial(lb) :
                    \A X \in SUBSET allState :
                        compatible([compat EXCEPT ![programOf(programLabels[c])] = X], lb, s)
                            = compatible(compat, lb, s)
                /\ trivial(lb) = {} => compatible(compat, lb, s) = "False"

\* an If with a branch on the literal true has been visited: the Motion state
\* was removed and the End states were kept, the body of the other branch
\* being related to other states than the body of the true branch
C22_Witness ==
    /\ pc \in {"for_l", "for_s"}
    /\ \E lb \in labelsOf("If") :
        /\ lb \notin todoL \cup {l}
        /\ trivial(lb) # {}
        /\ compat[lb] = EndStates
        /\ EndStates # allState

\* C23: for an Action and a ReceiveMessage state, compatible holds exactly
\* when the two message types are equal character by character and the end
\* state is in compat of the Action's successor; against a node of any other
\* kind it is false.
C23_ActionExact ==
    pc # "constructed" =>
        \A a \in labelsOf("Action") : \A s \in allState :
            IF nodeKind(s) = "ReceiveMessage"
            THEN compatible(compat, a, s) =
                    Bool(/\ programLabels[a].value = state_to_node[s].msg_type
                         /\ \A n \in nextLabel[a] : state_to_node[s].end_state[1] \in compat[n])
            ELSE compatible(compat, a, s) = "False"

\* check() has returned with an Action unrelated to a ReceiveMessage state
\* whose message type differs from the Action's by case or by the prefix only,
\* although the end state is related to the Action's successor
C23_Witness ==
    /\ returned
    /\ \E a \in labelsOf("Action") : \E s \in allState \ compat[a] :
        /\ nodeKind(s) = "ReceiveMessage"
        /\ sameMsgName(programLabels[a].value, state_to_node[s].msg_type)
        /\ programLabels[a].value # state_to_node[s].msg_type
        /\ \A n \in nextLabel[a] : state_to_node[s].end_state[1] \in compat[n]

\* one pass over a copy of the whole relation: the pairs of R that are
\* compatible against R
snapshotPass(R) == [lb \in allLabels |-> {s \in R[lb] : compatible(R, lb, s) = "True"}]
\* an evaluation of that pass ends with an error
snapshotAborts(R) ==
    \E lb \in allLabels : \E s \in R[lb] : compatible(R, lb, s) \notin {"True", "False"}
RECURSIVE snapshotFix(_)
\* the snapshot-per-pass iteration from R
snapshotFix(R) ==
    IF snapshotAborts(R) THEN [aborted |-> TRUE, compat |-> R]
    ELSE IF snapshotPass(R) = R THEN [aborted |-> FALSE, compat |-> R]
    ELSE snapshotFix(snapshotPass(R))

\* C24: whatever the order in which the labels and the states are visited,
\* check() ends as the snapshot-per-pass iteration from the universal
\* relation does: with the same final relation (and so the same verdict) when
\* it returns, and with an abort only when that iteration aborts.
C24_OrderIndependent ==
    /\ returned =>
        /\ ~snapshotFix(universal).aborted
        /\ compat = snapshotFix(universal).compat
        /\ result = Bool(start_state \in snapshotFix(universal).compat[initLabel])
    /\ pc = "error" => snapshotFix(universal).aborted

\* the control flow is a cycle of pass-through points only: every label is
\* a loop on the literal true or a Seq, Skip, Print or Assign with a successor
silent ==
    \A lb \in allLabels :
        \/ whileTrue(lb)
        \/ kindOf(lb) \in passThrough \cup {"Statement"} /\ nextLabel[lb] # {}

\* C25: for a program whose control flow is a cycle of pass-through points
\* only, every pair is compatible against the universal relation, check()
\* removes no pair, raises nothing, and returns True whatever the start state.
C25_SilentDivergenceAccepted ==
    silent /\ pc # "constructed" =>
        /\ compat = universal
        /\ nRemoved = 0
        /\ error = "none"
        /\ \A lb \in allLabels : \A s \in allState : compatible(compat, lb, s) = "True"
        /\ returned => result = "True"

\* check() has returned True for such a program against a projection whose
\* start state demands a Send, and in which a Motion and an End state exist
C25_Witness ==
    /\ silent
    /\ returned
    /\ result = "True"
    /\ nodeKind(start_state) = "SendMessage"
    /\ \E s \in allState : nodeKind(s) = "Motion"
    /\ EndStates # {}

\* the kinds for which compatible never asks for the successor
branching == {"If", "Receive"}

\* C26: in the graph buildCFA makes of a program tree every label that is
\* not the label of an If or of a Receive has at most one fallthrough
\* successor, so nextStatement never finds two successors where compatible
\* asks for one and check() never raises the ambiguous-successors error.
C26_SingleSuccessor ==
    /\ \A lb \in allLabels :
        kindOf(lb) \notin branching =>
            /\ Cardinality(nextLabel[lb]) <= 1
            /\ nextStatement(lb) # Ambiguous
    /\ error # "AmbiguousSuccessor"
    /\ pc # "constructed" =>
        \A lb \in allLabels : \A s \in allState :
            compatible(compat, lb, s) # "AmbiguousSuccessor"

\* check() has returned on a tree in which a Receive has two successors, its
\* motion and its action, and the motion leads back to the Receive and nowhere
\* else
C26_Witness ==
    /\ returned
    /\ \E lb \in labelsOf("Receive") :
        /\ Cardinality(nextLabel[lb]) = 2
        /\ kindOf(motionOf(programLabels[lb])) \notin branching
        /\ nextLabel[motionOf(programLabels[lb])] = {lb}

\* the labels the current pass has finished
visited == allLabels \ (todoL \cup {l})
\* the pairs of a non-empty If and a GuardedChoice state
raisingPairs ==
    {p \in labelsOf("If") \X allState :
        if_listOf(programLabels[p[1]]) # <<>> /\ nodeKind(p[2]) = "GuardedChoice"}

\* C27: in the first pass every label is visited with all of allState, so
\* unless an error ends it the pass calls compatible once for each pair of
\* labels and states; the evaluation of a non-empty If against a
\* GuardedChoice raises whatever the relation, so with such a pair check()
\* does not return, wherever the label and the state are.
C27_FirstPassExhaustive ==
    /\ firstPass =>
        /\ \A lb \in todoL : compat[lb] = allState
        /\ todoS \subseteq compat[l]
        /\ calls = Cardinality(allState) * Cardinality(visited)
                    + Cardinality(allState) - Cardinality(todoS)
    /\ returned /\ nCompatible # <<>> => calls >= pairs
    /\ pc # "constructed" =>
        \A p \in raisingPairs : compatible(compat, p[1], p[2]) = "NameError"
    /\ raisingPairs # {} => ~returned

\* check() was ended by the If that follows the Exit of the program, at the
\* choice that no edge of the projection leads to; the pairs of the root and
\* of the Exit with the start state are in the relation
C27_Witness ==
    /\ error = "NameError"
    /\ program = ProgDeadIf
    /\ state_to_node = ProjDeadChoice
    /\ <<l, "g">> \in raisingPairs
    /\ start_state = "e"
    /\ "e" \in compat[1] /\ "e" \in compat[2]

\* the wheel processes that have been started and have not ended
running == {i \in DOMAIN procs : procs[i].state = "started"}
\* __compute_steps__ has made its four processes and all four have ended
allStopped == Len(procs) = 4 /\ \A i \in DOMAIN procs : procs[i].state = "stopped"
\* the argument of the call in progress passes the assertion of its method
inRange ==
    IF method = "setAngleCart" THEN 0 <= arg /\ arg <= 360 ELSE method = "moveCart" /\ arg > 0

\* C28: a wheel process runs only while the motors are enabled (the pin is
\* LOW from before the first start until after the last join); the caller
\* joins only when all four processes have been started and is past
\* __compute_steps__ only when all four have ended; the pin goes HIGH, and
\* stepsCart and angleCart change, only when the four have ended; a call whose
\* argument fails the assertion changes nothing of the carrier and no call
\* goes past its assertion with such an argument.
C28_CartMotorProtocol ==
    /\ [](running # {} => pinEnable = "LOW")
    /\ [](cpc = "join" => \A i \in DOMAIN procs : procs[i].state # "initial")
    /\ [](cpc \in {"setAngleCart_update", "moveCart_update", "motors_shutdown"} => allStopped)
    /\ [](cpc = "idle" => running = {})
    /\ [](cpc \notin {"idle", "absent"} => inRange)
    /\ [][pinEnable' # pinEnable /\ pinEnable' = "HIGH" => allStopped]_vars
    /\ [][pinEnable' # pinEnable /\ pinEnable' = "LOW" => inRange /\ running = {}]_vars
    /\ [][stepsCart' # stepsCart \/ angleCart' # angleCart =>
            allStopped /\ method = "setAngleCart" /\ pinEnable = "LOW"]_vars
    /\ [][raised' = "AssertionError" =>
            UNCHANGED <<pinEnable, stepsCart, angleCart, cart_x, cart_y, cpc, method, arg,
                        steps, procs, nproc>>]_vars

\* setAngleCart waits in p1.join() with the motors enabled: the first wheel
\* process is still running, the fourth has ended, and stepsCart still holds
\* the steps of the call before
C28_Witness ==
    /\ method = "setAngleCart"
    /\ cpc = "join"
    /\ nproc = 1
    /\ procs[1].state = "started"
    /\ procs[4].state = "stopped"
    /\ pinEnable = "LOW"
    /\ stepsCart # steps
    /\ stepsCart # 0

====
